---- MODULE Spec2Model ----
(***************************************************************************)
(* Model of scripts/batch_render_cameras.py: the option resolution of      *)
(* main(), the camera selection of do_render() and the per-camera render   *)
(* configuration of render_with_camera().                                  *)
(*                                                                         *)
(* Strings are sequences of one-character strings.  A Python value that    *)
(* may be None is the empty tuple None when it is None and the one-element *)
(* tuple Some(v) when it is the value v.                                   *)
(***************************************************************************)
EXTENDS Integers, Sequences, FiniteSets, TLC

VARIABLES
    argv,            \* the parsed command line: which options were given, with their values
    version,         \* bpy.app.version
    blend_filepath,  \* bpy.data.filepath
    cams,            \* the camera objects select_by_type yields, by name, in the host's order
    scene0,          \* the scene and its render settings as loaded from the blend file
    scene,           \* bpy.context.scene and scene.render, as the script leaves them
    selected,        \* TRUE once select_by_type has replaced the host's selection
    written,         \* the names of the scene attributes the script has assigned
    Options,         \* the class attributes of Options
    cl,              \* main's cl after the conversion to int
    camera_list_0,   \* main's camera_list_0
    active_cams,     \* the cameras do_render has still to render
    renders,         \* the calls of bpy.ops.render.render made so far
    pc               \* where the run is

vars == <<argv, version, blend_filepath, cams, scene0, scene, selected, written,
          Options, cl, camera_list_0, active_cams, renders, pc>>

-----------------------------------------------------------------------------
(* Bounds of the model *)

MaxFrame == 1
MaxLen == 4
MaxCams == 9
MaxStem == 3
MaxPathLen == 2
MaxMajor == 3
MaxMinor == 94

-----------------------------------------------------------------------------
(* Python values *)

None == <<>>
Some(v) == <<v>>

\* Python's truth value of an optional int: None and 0 are false
Truthy(x) == x # None /\ x[1] # 0

\* Python's truth value of an optional str: None and "" are false
TruthyStr(x) == x # None /\ x[1] # <<>>

Last(s) == s[Len(s)]

StringsUpTo(A, n) == UNION {[1..k -> A] : k \in 0..n}

\* str.split(sep) for a one-character separator
RECURSIVE split(_, _)
split(s, sep) ==
    IF \A i \in 1..Len(s) : s[i] # sep
    THEN <<s>>
    ELSE LET i == CHOOSE k \in 1..Len(s) :
                      s[k] = sep /\ \A j \in 1..(k-1) : s[j] # sep
         IN  <<SubSeq(s, 1, i-1)>> \o split(SubSeq(s, i+1, Len(s)), sep)

Digits == <<"0", "1", "2", "3", "4", "5", "6", "7", "8", "9">>

IsDigit(ch) == \E d \in 1..Len(Digits) : Digits[d] = ch

DigitVal(ch) == (CHOOSE d \in 1..Len(Digits) : Digits[d] = ch) - 1

RECURSIVE DigitsVal(_)
DigitsVal(s) ==
    IF s = <<>> THEN 0
    ELSE 10 * DigitsVal(SubSeq(s, 1, Len(s)-1)) + DigitVal(Last(s))

\* the digits of an int literal, without its sign
Magnitude(tok) ==
    IF tok # <<>> /\ tok[1] \in {"-", "+"} THEN Tail(tok) ELSE tok

\* int(tok) raises ValueError unless tok is an optional sign and one or more digits
\* (the strings of the model hold no whitespace and no underscore)
IsIntLiteral(tok) ==
    /\ Magnitude(tok) # <<>>
    /\ \A i \in 1..Len(Magnitude(tok)) : IsDigit(Magnitude(tok)[i])

int(tok) ==
    IF tok[1] = "-" THEN 0 - DigitsVal(Magnitude(tok)) ELSE DigitsVal(Magnitude(tok))

RECURSIVE DecStr(_)
DecStr(n) ==
    IF n < 10 THEN <<Digits[n+1]>> ELSE DecStr(n \div 10) \o <<Digits[(n % 10) + 1]>>

-----------------------------------------------------------------------------
(* list(set(...)) as CPython computes it: a set of at most four ints is an  *)
(* open-addressing table of eight slots, an int n >= 0 hashes to n, and the *)
(* list is the table read in slot order.                                   *)

EmptyTable == [i \in 0..7 |-> None]

RECURSIVE set_probe(_, _, _, _)
set_probe(table, key, i, perturb) ==
    IF table[i] = None THEN [table EXCEPT ![i] = Some(key)]
    ELSE IF table[i] = Some(key) THEN table
    ELSE LET p == perturb \div 32
         IN  set_probe(table, key, (i * 5 + 1 + p) % 8, p)

set_add(table, key) == set_probe(table, key, key % 8, key)

RECURSIVE set_update(_, _)
set_update(table, l) ==
    IF l = <<>> THEN table ELSE set_update(set_add(table, Head(l)), Tail(l))

RECURSIVE table_list(_, _)
table_list(table, i) ==
    IF i > 7 THEN <<>> ELSE table[i] \o table_list(table, i + 1)

\* line 185: list(set(camera_list_0))
list_set(l) == table_list(set_update(EmptyTable, l), 0)

-----------------------------------------------------------------------------
(* Option resolution, main() lines 139-185 *)

InitialOptions ==
    [FrameStart |-> None, FrameEnd |-> None, AllFrames |-> TRUE,
     OverwriteSet |-> FALSE, Overwrite |-> TRUE, PersistentData |-> FALSE,
     persistent_data |-> None]

\* a parser whose two overwrite options are not in one exclusive group
MutuallyExclusiveUnchecked(a) == FALSE

\* the two overwrite options are one mutually exclusive group: parse_args exits
MutuallyExclusiveError(a) == a.o /\ a.n

\* "not argv": no token follows "--"
ArgvEmpty(a) ==
    a.c = None /\ a.s = None /\ a.e = None /\ ~a.o /\ ~a.n /\ ~a.p

is_blender_293(bv) == bv[1] >= 2 /\ bv[2] >= 3

\* lines 148-149: the assignment creates the attribute Options.persistent_data
ResolvePersistentData(opts, a, bv) ==
    IF a.p /\ is_blender_293(bv)
    THEN [opts EXCEPT !.persistent_data = Some(a.p)]
    ELSE opts

\* lines 151-156
ResolveFrames(opts, a) ==
    IF Truthy(a.s) \/ Truthy(a.e)
    THEN [opts EXCEPT !.AllFrames = FALSE,
                      !.FrameStart = IF Truthy(a.s) THEN a.s ELSE @,
                      !.FrameEnd = IF Truthy(a.e) THEN a.e ELSE @]
    ELSE opts

\* line 163 reading the other option: "no_overwrite" in args
OverwriteValueFromSkip(a) == a.n

\* line 163: "overwrite" in args
OverwriteValue(a) == a.o

\* lines 159-163
ResolveOverwrite(opts, a) ==
    IF ~a.n /\ ~a.o
    THEN [opts EXCEPT !.OverwriteSet = FALSE]
    ELSE [opts EXCEPT !.OverwriteSet = TRUE, !.Overwrite = OverwriteValue(a)]

\* lines 171-175
CameraTokens(a) == split(a.c[1], ",")

\* line 178 raises ValueError
CameraListValueError(a) ==
    \E i \in 1..Len(CameraTokens(a)) : ~IsIntLiteral(CameraTokens(a)[i])

\* line 178
CameraInts(a) == [i \in 1..Len(CameraTokens(a)) |-> int(CameraTokens(a)[i])]

\* line 184 without the shift to zero-based indices
ZeroIndexedNoShift(val) == IF val > 0 THEN val ELSE 0

\* line 184: one element of the comprehension
ZeroIndexed(val) == IF val > 0 THEN val - 1 ELSE 0

\* line 185 left out: the list keeps its duplicates
RemoveDuplicatesKept(l) == l

\* line 185
RemoveDuplicates(l) == list_set(l)

\* lines 184-185
CameraList0(ints) ==
    RemoveDuplicates([i \in 1..Len(ints) |-> ZeroIndexed(ints[i])])

-----------------------------------------------------------------------------
(* do_render and render_with_camera *)

\* a subscript that clamps an index past the end to the last camera
SubscriptClamped(cs, i) ==
    IF i >= 0 /\ i < Len(cs) THEN Some(cs[i + 1])
    ELSE IF i < 0 /\ i >= 0 - Len(cs) THEN Some(cs[Len(cs) + i + 1])
    ELSE Some(cs[Len(cs)])

\* cams[i] of line 76: None stands for the IndexError of an i that is no index of cams
Subscript(cs, i) ==
    IF i >= 0 /\ i < Len(cs) THEN Some(cs[i + 1])
    ELSE IF i < 0 /\ i >= 0 - Len(cs) THEN Some(cs[Len(cs) + i + 1])
    ELSE None

\* bpy.path.basename: a leading "//" is dropped, then what follows the last "/"
basename(path) ==
    LET p == IF Len(path) >= 2 /\ SubSeq(path, 1, 2) = <<"/", "/">>
             THEN SubSeq(path, 3, Len(path)) ELSE path
    IN  Last(split(p, "/"))

get_blend_name_base(fp) == split(basename(fp), ".")[1]

\* line 59
RenderFilename(filepath) == Last(split(filepath, "\\"))

\* line 60
RenderFolder(fp, name, filepath) ==
    <<"/", "/">> \o get_blend_name_base(fp) \o <<"_">> \o name \o <<"\\">>
        \o RenderFilename(filepath)

\* lines 42-46
ApplyFrames(sc, opts) ==
    IF ~opts.AllFrames
    THEN [sc EXCEPT !.frame_start = IF Truthy(opts.FrameStart) THEN opts.FrameStart[1] ELSE @,
                    !.frame_end = IF Truthy(opts.FrameEnd) THEN opts.FrameEnd[1] ELSE @]
    ELSE sc

\* lines 51-52
ApplyOverwrite(sc, opts) ==
    IF opts.OverwriteSet THEN [sc EXCEPT !.use_overwrite = opts.Overwrite] ELSE sc

\* lines 55-56
ApplyPersistentData(sc, opts) ==
    IF opts.PersistentData THEN [sc EXCEPT !.use_persistent_data = TRUE] ELSE sc

\* lines 58-63
ApplyFilepath(sc, fp, name) ==
    [sc EXCEPT !.use_file_extension = TRUE,
               !.filepath = RenderFolder(fp, name, sc.filepath)]

\* the scene at line 65, when render_with_camera calls the render operator
ConfiguredScene(sc, opts, fp, name) ==
    ApplyFilepath(
        ApplyPersistentData(
            ApplyOverwrite(
                ApplyFrames([sc EXCEPT !.camera = name], opts), opts), opts), fp, name)

\* the scene attributes render_with_camera assigns
Assigned(opts) ==
    {"camera", "use_file_extension", "filepath"}
        \cup (IF ~opts.AllFrames /\ Truthy(opts.FrameStart) THEN {"frame_start"} ELSE {})
        \cup (IF ~opts.AllFrames /\ Truthy(opts.FrameEnd) THEN {"frame_end"} ELSE {})
        \cup (IF opts.OverwriteSet THEN {"use_overwrite"} ELSE {})
        \cup (IF opts.PersistentData THEN {"use_persistent_data"} ELSE {})

-----------------------------------------------------------------------------
(* The runs the model explores *)

OptFrames == {None} \cup {Some(v) : v \in (0 - MaxFrame)..MaxFrame}

DefaultArgv == [c |-> Some(<<"1">>), s |-> None, e |-> None,
                o |-> FALSE, n |-> FALSE, p |-> FALSE]

Cameras(k) == [i \in 1..k |-> <<"C">> \o DecStr(i)]

DefaultScene ==
    [camera |-> None, frame_start |-> MaxFrame + 1, frame_end |-> MaxFrame + 2,
     use_overwrite |-> TRUE, use_persistent_data |-> FALSE,
     filepath |-> <<"/", "/", "r", "\\", "f">>, use_file_extension |-> TRUE]

DefaultBlend == <<"/", "d", "/", "S", ".", "b">>

DefaultRun ==
    [argv |-> DefaultArgv, version |-> <<2, 93, 0>>, blend |-> DefaultBlend,
     cams |-> Cameras(2), scene |-> DefaultScene]

\* every combination of the options, on a supported and an unsupported host
OptionRuns ==
    {[DefaultRun EXCEPT !.argv = a, !.version = v,
                        !.scene.use_overwrite = ow, !.scene.use_persistent_data = pd] :
        a \in [c : {None, Some(<<"2", ",", "1">>)},
               s : OptFrames, e : OptFrames,
               o : BOOLEAN, n : BOOLEAN, p : BOOLEAN],
        v \in {<<2, 92, 0>>, <<2, 93, 0>>},
        ow \in BOOLEAN, pd \in BOOLEAN}

\* longer camera lists: with repeated, unordered and non-positive indices
ExampleLists ==
    {<<"1", ",", "2", ",", "2", ",", "4">>,
     <<"9", ",", "1", ",", "9">>,
     <<"2", ",", "0", ",", "-", "1", ",", "2">>}

\* every camera list of at most MaxLen characters, in a scene of two or of MaxCams cameras
CameraRuns ==
    {[DefaultRun EXCEPT !.argv.c = Some(s), !.cams = Cameras(k)] :
        s \in StringsUpTo({"0", "1", "9", "-", ",", "x"}, MaxLen) \cup ExampleLists,
        k \in {2, MaxCams}}

\* blend file names with one or more dots, render filepaths with and without
\* backslashes, camera names with and without a backslash
BlendPaths ==
    {<<>>} \cup
    {dir \o stem \o <<".", "b">> :
        dir \in {<<>>, <<"/", "/">>, <<"/", "d", "/">>},
        stem \in {t \in StringsUpTo({"S", "."}, MaxStem) :
                     t # <<>> /\ t[1] = "S" /\ Last(t) = "S"}}

PathRuns ==
    {[DefaultRun EXCEPT !.argv.c = Some(c), !.blend = b, !.cams = cs,
                        !.scene.filepath = pre \o f, !.scene.use_file_extension = FALSE] :
        c \in {<<"2">>, <<"1", ",", "2">>},
        b \in BlendPaths,
        cs \in {Cameras(2), <<<<"A", "\\">>, <<"B">>>>, <<<<"A", "\\", "B">>, <<"C">>>>},
        pre \in {<<>>, <<"/", "/">>},
        f \in StringsUpTo({"f", "\\"}, MaxPathLen)}

\* every host version up to MaxMajor.MaxMinor, with and without -p
VersionRuns ==
    {[DefaultRun EXCEPT !.argv.p = p, !.version = <<major, minor, 0>>] :
        p \in BOOLEAN, major \in 1..MaxMajor, minor \in 0..MaxMinor}

Runs == OptionRuns \cup CameraRuns \cup PathRuns \cup VersionRuns

Init ==
    /\ \E r \in Runs :
        /\ argv = r.argv
        /\ version = r.version
        /\ blend_filepath = r.blend
        /\ cams = r.cams
        /\ scene0 = r.scene
        /\ scene = r.scene
    /\ selected = FALSE
    /\ written = {}
    /\ Options = InitialOptions
    /\ cl = <<>>
    /\ camera_list_0 = <<>>
    /\ active_cams = <<>>
    /\ renders = <<>>
    /\ pc = "parse_args"

-----------------------------------------------------------------------------
(* The steps of main() *)

Host == <<argv, version, blend_filepath, cams, scene0>>

\* line 139: parse_args exits on -o together with -n
ParseArgs ==
    /\ pc = "parse_args"
    /\ pc' = IF MutuallyExclusiveError(argv) THEN "SystemExit" ELSE "parsed"
    /\ UNCHANGED <<Host, scene, selected, written, Options, cl, camera_list_0,
                   active_cams, renders>>

\* lines 143-145
PrintHelp ==
    /\ pc = "parsed"
    /\ ArgvEmpty(argv)
    /\ pc' = "returned_help"
    /\ UNCHANGED <<Host, scene, selected, written, Options, cl, camera_list_0,
                   active_cams, renders>>

\* lines 147-163
ResolveOptions ==
    /\ pc = "parsed"
    /\ ~ArgvEmpty(argv)
    /\ Options' = ResolveOverwrite(
                      ResolveFrames(
                          ResolvePersistentData(Options, argv, version), argv), argv)
    /\ pc' = "camera_list"
    /\ UNCHANGED <<Host, scene, selected, written, cl, camera_list_0,
                   active_cams, renders>>

\* lines 165-168
MissingCameraList ==
    /\ pc = "camera_list"
    /\ ~TruthyStr(argv.c)
    /\ pc' = "returned_no_camera_list"
    /\ UNCHANGED <<Host, scene, selected, written, Options, cl, camera_list_0,
                   active_cams, renders>>

\* lines 170-182
BadCameraList ==
    /\ pc = "camera_list"
    /\ TruthyStr(argv.c)
    /\ CameraListValueError(argv)
    /\ pc' = "returned_value_error"
    /\ UNCHANGED <<Host, scene, selected, written, Options, cl, camera_list_0,
                   active_cams, renders>>

\* lines 170-185
ConvertCameraList ==
    /\ pc = "camera_list"
    /\ TruthyStr(argv.c)
    /\ ~CameraListValueError(argv)
    /\ cl' = CameraInts(argv)
    /\ camera_list_0' = CameraList0(CameraInts(argv))
    /\ pc' = "do_render"
    /\ UNCHANGED <<Host, scene, selected, written, Options, active_cams, renders>>

\* lines 75-76, an index out of range: the comprehension raises IndexError
SelectIndexError ==
    /\ pc = "do_render"
    /\ \E k \in 1..Len(camera_list_0) : Subscript(cams, camera_list_0[k]) = None
    /\ selected' = TRUE
    /\ pc' = "IndexError"
    /\ UNCHANGED <<Host, scene, written, Options, cl, camera_list_0,
                   active_cams, renders>>

\* lines 75-78
SelectCameras ==
    /\ pc = "do_render"
    /\ \A k \in 1..Len(camera_list_0) : Subscript(cams, camera_list_0[k]) # None
    /\ selected' = TRUE
    /\ active_cams' = [k \in 1..Len(camera_list_0) |-> Subscript(cams, camera_list_0[k])[1]]
    /\ pc' = "render_loop"
    /\ UNCHANGED <<Host, scene, written, Options, cl, camera_list_0, renders>>

\* lines 79-80 and 37-65: one iteration; the render operator returns or raises
RenderWithCamera ==
    /\ pc = "render_loop"
    /\ active_cams # <<>>
    /\ scene' = ConfiguredScene(scene, Options, blend_filepath, Head(active_cams))
    /\ written' = written \cup Assigned(Options)
    /\ renders' = Append(renders, [camera |-> Head(active_cams), scene |-> scene'])
    /\ \E raised \in BOOLEAN :
        IF raised
        THEN pc' = "RuntimeError" /\ UNCHANGED active_cams
        ELSE pc' = "render_loop" /\ active_cams' = Tail(active_cams)
    /\ UNCHANGED <<Host, selected, Options, cl, camera_list_0>>

\* line 190
Finish ==
    /\ pc = "render_loop"
    /\ active_cams = <<>>
    /\ pc' = "finished"
    /\ UNCHANGED <<Host, scene, selected, written, Options, cl, camera_list_0,
                   active_cams, renders>>

Next ==
    \/ ParseArgs
    \/ PrintHelp
    \/ ResolveOptions
    \/ MissingCameraList
    \/ BadCameraList
    \/ ConvertCameraList
    \/ SelectIndexError
    \/ SelectCameras
    \/ RenderWithCamera
    \/ Finish

Spec == Init /\ [][Next]_vars

-----------------------------------------------------------------------------
(* The properties *)

\* the render calls made so far
Calls == 1..Len(renders)

\* the state is past the option resolution of lines 147-163
OptionsResolved == pc \notin {"parse_args", "SystemExit", "parsed", "returned_help"}

\* the state is past the conversion of the camera list of lines 170-185
CameraListResolved ==
    pc \in {"do_render", "IndexError", "render_loop", "RuntimeError", "finished"}

\* the minimum version the persistent-data option documents: 2.93
Supports293(bv) == bv[1] >= 2 /\ bv[2] >= 93

\* C1: with -p on a supported host every render call is made with persistent data
\* enabled; with -p on an unsupported host, or without -p, the script never assigns
\* the persistent-data setting.
C1_PersistentData ==
    /\ (argv.p /\ Supports293(version)) =>
           \A i \in Calls : renders[i].scene.use_persistent_data = TRUE
    /\ (~argv.p \/ ~Supports293(version)) => "use_persistent_data" \notin written

\* C2: the version check that gates -p accepts the host's version tuple exactly when
\* major >= 2 and minor >= 93.
C2_VersionCheck ==
    (OptionsResolved /\ argv.p) =>
        ((Options.persistent_data # None) <=> (version[1] >= 2 /\ version[2] >= 93))

\* C3: at each render call a frame bound given with -s or -e, 0 and negative values
\* included, is the scene's bound, a bound not given is the bound the scene had before
\* the run, and with neither given the frame range is never assigned.
C3_FrameRange ==
    /\ \A i \in Calls :
        /\ renders[i].scene.frame_start =
               (IF argv.s # None THEN argv.s[1] ELSE scene0.frame_start)
        /\ renders[i].scene.frame_end =
               (IF argv.e # None THEN argv.e[1] ELSE scene0.frame_end)
    /\ (argv.s = None /\ argv.e = None) =>
           written \cap {"frame_start", "frame_end"} = {}

\* C4: after option resolution Options.AllFrames is false exactly when -s or -e was
\* given, whatever its value.
C4_AllFrames ==
    OptionsResolved => ((Options.AllFrames = FALSE) <=> (argv.s # None \/ argv.e # None))

\* the selection the camera list denotes: k >= 1 is index k-1, k <= 0 is index 0
SelectionOf(ints) == {IF ints[k] >= 1 THEN ints[k] - 1 ELSE 0 : k \in 1..Len(ints)}

\* C5: the resolved selection is exactly { k-1 if k >= 1 else 0 : k in the list }, each
\* index once; "1,2,2,4" resolves to {0,1,3}.
C5_Selection ==
    CameraListResolved =>
        /\ {camera_list_0[i] : i \in 1..Len(camera_list_0)} = SelectionOf(cl)
        /\ \A i, j \in 1..Len(camera_list_0) :
               camera_list_0[i] = camera_list_0[j] => i = j
        /\ argv.c = Some(<<"1", ",", "2", ",", "2", ",", "4">>) =>
               {camera_list_0[i] : i \in 1..Len(camera_list_0)} = {0, 1, 3}

\* a list with an index <= 0, an index >= 1 and a repetition has been resolved
C5_Reached ==
    /\ pc = "do_render"
    /\ \E k \in 1..Len(cl) : cl[k] <= 0
    /\ \E k \in 1..Len(cl) : cl[k] >= 2
    /\ Len(camera_list_0) < Len(cl)

\* C6: at every render call the overwrite flag is true with -o, false with -n, and the
\* scene's own value with neither, in which case the script never assigns it.
C6_Overwrite ==
    /\ \A i \in Calls :
        /\ argv.o => renders[i].scene.use_overwrite = TRUE
        /\ argv.n => renders[i].scene.use_overwrite = FALSE
        /\ (~argv.o /\ ~argv.n) => renders[i].scene.use_overwrite = scene0.use_overwrite
    /\ (~argv.o /\ ~argv.n) => "use_overwrite" \notin written

\* a second camera has been rendered with -n on a scene that overwrites
C6_Reached ==
    /\ Len(renders) = 2
    /\ argv.n
    /\ scene0.use_overwrite

\* the camera list holds a token that is no integer
NonIntegerToken ==
    /\ argv.c # None
    /\ \E i \in 1..Len(split(argv.c[1], ",")) : ~IsIntLiteral(split(argv.c[1], ",")[i])

OutOfRange == \E k \in 1..Len(camera_list_0) : camera_list_0[k] >= Len(cams)

\* C8: with a resolved index >= the number of cameras the run aborts with the index
\* error before any render call and never reaches its normal completion.
C8_OutOfRange ==
    OutOfRange =>
        /\ renders = <<>>
        /\ pc \in {"do_render", "IndexError"}
        /\ pc = "do_render" => (ENABLED SelectIndexError /\ ~ENABLED SelectCameras)

\* the run has aborted on a list that also holds an index in range
C8_Reached ==
    /\ pc = "IndexError"
    /\ \E k \in 1..Len(camera_list_0) : camera_list_0[k] >= Len(cams)
    /\ \E k \in 1..Len(camera_list_0) : camera_list_0[k] < Len(cams)

\* the place of a camera in the enumeration, from 0
IndexOf(name) == (CHOOSE k \in 1..Len(cams) : cams[k] = name) - 1

\* the finished run rendered each selected camera once, as the scene's active camera
EachSelectedOnce ==
    /\ Len(renders) = Cardinality(SelectionOf(cl))
    /\ \A i \in Calls :
        /\ \E k \in 1..Len(cams) : cams[k] = renders[i].camera
        /\ renders[i].scene.camera = renders[i].camera
    /\ {IndexOf(renders[i].camera) : i \in Calls} = SelectionOf(cl)

\* C9 as stated: a finished run rendered exactly the selected cameras, each once as the
\* active camera, in ascending order of their index.
C9_EnumerationOrder ==
    pc = "finished" =>
        /\ EachSelectedOnce
        /\ \A i, j \in Calls :
               i < j => IndexOf(renders[i].camera) < IndexOf(renders[j].camera)

\* C9 as amended: a finished run rendered exactly the selected cameras, each once as the
\* active camera, in the order of the deduplicated index list.
C9_EachSelectedOnce ==
    pc = "finished" =>
        /\ EachSelectedOnce
        /\ \A i \in Calls : IndexOf(renders[i].camera) = camera_list_0[i]

\* a run with a repeated index has finished after rendering a later camera first
C9_Reached ==
    /\ pc = "finished"
    /\ Len(cl) > Len(renders)
    /\ \E i, j \in Calls : i < j /\ IndexOf(renders[i].camera) > IndexOf(renders[j].camera)

\* a file name without its extension: what precedes its last dot, leading dots aside
WithoutExtension(name) ==
    LET dots == {i \in 1..Len(name) :
                    name[i] = "." /\ \E j \in 1..(i-1) : name[j] # "."}
    IN  IF dots = {} THEN name
        ELSE SubSeq(name, 1, (CHOOSE i \in dots : \A j \in dots : j <= i) - 1)

\* the scene file's name without directory and extension
SceneBaseName == WithoutExtension(basename(blend_filepath))

\* C10: for every camera rendered, first or later, the render filepath at the call is
\* "//" + scene base name + "_" + camera name + "\" + f, with f the trailing segment of
\* the filepath the scene had before the run, and file extensions are enabled.
C10_RenderPath ==
    \A i \in Calls :
        /\ renders[i].scene.filepath =
               <<"/", "/">> \o SceneBaseName \o <<"_">> \o renders[i].camera
                   \o <<"\\">> \o Last(split(scene0.filepath, "\\"))
        /\ renders[i].scene.use_file_extension

\* the same path with the name get_blend_name_base computes: no camera's path is
\* carried into a later camera's path
PathDoesNotAccumulate ==
    \A i \in Calls :
        /\ renders[i].scene.filepath =
               <<"/", "/">> \o get_blend_name_base(blend_filepath) \o <<"_">>
                   \o renders[i].camera \o <<"\\">> \o Last(split(scene0.filepath, "\\"))
        /\ renders[i].scene.use_file_extension

====
